---- MODULE Spec2Model ----
(***************************************************************************)
(* enterprise-catalog: the catalog-query resolver                          *)
(* (find_and_modify_catalog_query), the content-metadata projection        *)
(* (ContentMetadataSerializer.to_representation) and the coverage view     *)
(* (contains_content_items).                                               *)
(*                                                                         *)
(* Spec      one resolve per step, each a whole call (sequential callers). *)
(* SpecRace  two callers whose database statements interleave.             *)
(* SpecProject   to_representation applied to bounded records.             *)
(* SpecContains  contains_content_items applied to bounded requests.       *)
(***************************************************************************)
EXTENDS Integers, Sequences, FiniteSets, TLC

VARIABLES
    catalog_queries,   \* the CatalogQuery table: row id = index
    call,              \* Spec: the arguments and outcome of the latest resolve
    proc,              \* SpecRace: each caller's position, arguments and locals
    calls,             \* SpecRace: the number of resolves begun so far
    instance,          \* SpecProject: the ContentMetadata object being rendered
    heap,              \* SpecProject: the nested course-run dicts, by reference
    enterprise_catalog, \* SpecProject: the serializer context's catalog
    representation,    \* SpecProject: what to_representation returned last
    content_metadata,  \* SpecContains: the catalog's associated content rows
    request,           \* SpecContains: the query parameters of the latest request
    response,          \* SpecContains: the response to the latest request
    enterprise_catalogs, \* SpecCatalog: the EnterpriseCatalog table: row id = index
    op,                \* SpecCatalog: the latest serializer create or update
    metadata_rows,     \* SpecSync, SpecSyncRace: the ContentMetadata table
    run,               \* SpecSync: the latest run of the sync and its outcome
    syncs,             \* SpecSyncRace: each running sync's position and locals
    sync_calls         \* SpecSyncRace: the number of syncs begun so far

resolver_vars == <<catalog_queries, call, proc, calls>>

projection_vars == <<instance, heap, enterprise_catalog, representation>>

view_vars == <<content_metadata, request, response>>

catalog_vars == <<enterprise_catalogs, op>>

sync_vars == <<metadata_rows, run, syncs, sync_calls>>

vars == <<catalog_queries, call, proc, calls, instance, heap, enterprise_catalog,
          representation, content_metadata, request, response,
         enterprise_catalogs, op, metadata_rows, run, syncs, sync_calls>>

-----------------------------------------------------------------------------
(* Bounds and input domains *)

\* The CatalogQuery table holds at most MaxRows rows: inserts stop there.
MaxRows == 2

\* SpecRace follows the interleavings of the first MaxCalls resolves.
MaxCalls == 3

\* Identifiers a client may send (LMS Django Admin uuids): 1..NumUuids.
NumUuids == 1

\* Python None for catalog_query_uuid / a row id that was not found.
None == 0

\* query_title "Can be null": the null title.
NoTitle == "null"

Titles == {NoTitle, "A"}

\* A content filter is an ordered sequence of field codes (an ordered JSON
\* object): <<1, 2>> and <<2, 1>> hold the same fields in a different order.
ContentFilters == {<<1>>, <<1, 2>>, <<2, 1>>}

ClientUuids == 1..NumUuids

\* uuid4 default of a row inserted without an explicit uuid: a value no client
\* sends by itself and no other insert produces.
uuid4(id) == 0 - id

-----------------------------------------------------------------------------
(* catalog/utils.py get_content_filter_hash: a digest of the serialized      *)
(* filter, sensitive to field order.                                         *)

RECURSIVE get_content_filter_hash(_)
get_content_filter_hash(content_filter) ==
    IF content_filter = <<>>
    THEN 0
    ELSE get_content_filter_hash(SubSeq(content_filter, 1, Len(content_filter) - 1)) * 3
         + content_filter[Len(content_filter)]

-----------------------------------------------------------------------------
(* The persistence layer, as the model classes configure it *)

RowIds(rows) == DOMAIN rows

\* CatalogQuery.get_by_uuid: the row with that uuid, or None.
get_by_uuid(rows, uuid) ==
    IF \E id \in RowIds(rows) : rows[id].uuid = uuid
    THEN CHOOSE id \in RowIds(rows) : rows[id].uuid = uuid
    ELSE None

\* objects.get(content_filter_hash=h); None stands for DoesNotExist.
get_by_hash(rows, hash) ==
    IF \E id \in RowIds(rows) : rows[id].content_filter_hash = hash
    THEN CHOOSE id \in RowIds(rows) : rows[id].content_filter_hash = hash
    ELSE None

\* A table whose hash column lost its unique constraint.
HashNotUnique_unenforced(rows, id, rec) == FALSE

\* content_filter_hash = CharField(unique=True): writing rec as row id (None
\* for an insert) is refused when another row holds the same hash.
HashNotUnique(rows, id, rec) ==
    \E other \in RowIds(rows) :
        other # id /\ rows[other].content_filter_hash = rec.content_filter_hash

\* The identifier column is unique as well.
UuidNotUnique(rows, id, rec) ==
    \E other \in RowIds(rows) : other # id /\ rows[other].uuid = rec.uuid

IntegrityError(rows, id, rec) ==
    HashNotUnique(rows, id, rec) \/ UuidNotUnique(rows, id, rec)

\* save hashes the first field of the filter only.
SavedRow_hashes_first_field(rec) ==
    [rec EXCEPT !.content_filter_hash =
        get_content_filter_hash(SubSeq(rec.content_filter, 1, 1))]

\* CatalogQuery.save: the hash is recomputed from the filter on every write.
SavedRow(rec) ==
    [rec EXCEPT !.content_filter_hash = get_content_filter_hash(rec.content_filter)]

Outcome(rows, result, error, created) ==
    [rows |-> rows, result |-> result, error |-> error, created |-> created]

\* obj.save() of the loaded row id; on a refused write nothing is committed
\* and raised names the exception the caller sees.
save(rows, id, rec, raised) ==
    IF IntegrityError(rows, id, SavedRow(rec))
    THEN Outcome(rows, None, raised, FALSE)
    ELSE Outcome([rows EXCEPT ![id] = SavedRow(rec)], id, "none", FALSE)

\* The match of update_or_create: the defaults are set on the row found by
\* hash, which is then saved; an IntegrityError is not caught here.
update_matched(rows, id, content_filter, uuid, title) ==
    save(rows, id,
         [rows[id] EXCEPT !.content_filter = content_filter,
                          !.uuid = uuid, !.title = title],
         "IntegrityError")

\* objects.create(**params) inside get_or_create / update_or_create. A refused
\* insert is caught and the row is read again by hash: when that read sees a
\* row (sees_row) it is used, else the IntegrityError is raised again.
create(rows, rec, sees_row, is_update) ==
    LET new == SavedRow(rec)
        found == get_by_hash(rows, new.content_filter_hash)
    IN  IF ~IntegrityError(rows, None, new)
        THEN Outcome(Append(rows, new), Len(rows) + 1, "none", TRUE)
        ELSE IF found # None /\ sees_row
        THEN IF is_update
             THEN update_matched(rows, found, rec.content_filter, rec.uuid, rec.title)
             ELSE Outcome(rows, found, "none", FALSE)
        ELSE Outcome(rows, None, "IntegrityError", FALSE)

NewRow(content_filter, uuid, title) ==
    [uuid |-> uuid, title |-> title, content_filter |-> content_filter,
     content_filter_hash |-> get_content_filter_hash(content_filter)]

-----------------------------------------------------------------------------
(* serializers.py find_and_modify_catalog_query, branch by branch *)

\* The IntegrityError is swallowed and the unsaved object returned.
overwrite_by_uuid_swallows(rows, id, obj_uuid, content_filter, query_title) ==
    LET out == save(rows, id,
                    [uuid |-> obj_uuid, title |-> query_title,
                     content_filter |-> content_filter,
                     content_filter_hash |-> get_content_filter_hash(content_filter)],
                    "catalog_query")
    IN  [out EXCEPT !.result = id, !.error = "none"]

\* The assignment of the title (line 50) is left out.
overwrite_by_uuid_keeps_title(rows, id, obj_uuid, content_filter, query_title) ==
    save(rows, id,
         [uuid |-> obj_uuid, title |-> rows[id].title, content_filter |-> content_filter,
          content_filter_hash |-> get_content_filter_hash(content_filter)],
         "catalog_query")

\* Lines 48-61: the row found by uuid is overwritten and saved; an
\* IntegrityError becomes a ValidationError on the field 'catalog_query'.
overwrite_by_uuid(rows, id, obj_uuid, content_filter, query_title) ==
    save(rows, id,
         [uuid |-> obj_uuid, title |-> query_title, content_filter |-> content_filter,
          content_filter_hash |-> get_content_filter_hash(content_filter)],
         "catalog_query")

\* get_or_create in the place of update_or_create: a match is returned as is.
update_or_create_as_get(rows, content_filter, catalog_query_uuid, query_title, sees_row) ==
    LET id == get_by_hash(rows, get_content_filter_hash(content_filter))
    IN  IF id # None
        THEN Outcome(rows, id, "none", FALSE)
        ELSE create(rows, NewRow(content_filter, catalog_query_uuid, query_title),
                    sees_row, TRUE)

\* Lines 63-67: update_or_create keyed by the hash.
update_or_create(rows, content_filter, catalog_query_uuid, query_title, sees_row) ==
    LET id == get_by_hash(rows, get_content_filter_hash(content_filter))
    IN  IF id # None
        THEN update_matched(rows, id, content_filter, catalog_query_uuid, query_title)
        ELSE create(rows, NewRow(content_filter, catalog_query_uuid, query_title),
                    sees_row, TRUE)

\* objects.create in the place of get_or_create: always an insert.
get_or_create_as_create(rows, content_filter, query_title, sees_row) ==
    LET new == NewRow(content_filter, uuid4(Len(rows) + 1), query_title)
    IN  IF IntegrityError(rows, None, new)
        THEN Outcome(rows, None, "IntegrityError", FALSE)
        ELSE Outcome(Append(rows, new), Len(rows) + 1, "none", TRUE)

\* update_or_create in the place of get_or_create: a match takes the defaults.
get_or_create_as_update(rows, content_filter, query_title, sees_row) ==
    LET id == get_by_hash(rows, get_content_filter_hash(content_filter))
    IN  IF id # None
        THEN update_matched(rows, id, content_filter, rows[id].uuid, query_title)
        ELSE create(rows, NewRow(content_filter, uuid4(Len(rows) + 1), query_title),
                    sees_row, FALSE)

\* Lines 69-74: get_or_create keyed by the hash.
get_or_create(rows, content_filter, query_title, sees_row) ==
    LET id == get_by_hash(rows, get_content_filter_hash(content_filter))
    IN  IF id # None
        THEN Outcome(rows, id, "none", FALSE)
        ELSE create(rows, NewRow(content_filter, uuid4(Len(rows) + 1), query_title),
                    sees_row, FALSE)

\* Which branch a call with these arguments takes.
Branch(rows, catalog_query_uuid) ==
    IF catalog_query_uuid # None
    THEN IF get_by_uuid(rows, catalog_query_uuid) # None
         THEN "overwrite"
         ELSE "update_or_create"
    ELSE "get_or_create"

\* The whole function, run without interference.
find_and_modify_catalog_query(rows, content_filter, catalog_query_uuid, query_title) ==
    IF catalog_query_uuid # None
    THEN LET catalog_query_from_uuid == get_by_uuid(rows, catalog_query_uuid)
         IN  IF catalog_query_from_uuid # None
             THEN overwrite_by_uuid(rows, catalog_query_from_uuid, catalog_query_uuid,
                                    content_filter, query_title)
             ELSE update_or_create(rows, content_filter, catalog_query_uuid,
                                   query_title, TRUE)
    ELSE get_or_create(rows, content_filter, query_title, TRUE)

\* The identifiers a caller can send: none, one of its own, or the uuid of a
\* row it has read (EnterpriseCatalogSerializer.update sends the row's own).
SendableUuids(rows) ==
    {None} \cup ClientUuids \cup {rows[id].uuid : id \in RowIds(rows)}

-----------------------------------------------------------------------------
(* Spec: sequential resolves *)

NoCall ==
    [content_filter |-> <<>>, catalog_query_uuid |-> None, query_title |-> NoTitle,
     branch |-> "none", result |-> None, error |-> "none", created |-> FALSE,
     repeat |-> FALSE]

IdleProc ==
    [pc |-> "idle", content_filter |-> <<>>, catalog_query_uuid |-> None,
     query_title |-> NoTitle, id |-> None, result |-> None, error |-> "none",
     created |-> FALSE, raced |-> FALSE]

Procs == {"p1", "p2"}

ResolverInit ==
    /\ catalog_queries = <<>>
    /\ call = NoCall
    /\ proc = [p \in Procs |-> IdleProc]
    /\ calls = 0

Resolve(content_filter, catalog_query_uuid, query_title) ==
    LET out == find_and_modify_catalog_query(catalog_queries, content_filter,
                                             catalog_query_uuid, query_title)
    IN  /\ Len(out.rows) <= MaxRows
        /\ catalog_queries' = out.rows
        /\ call' = [content_filter |-> content_filter,
                    catalog_query_uuid |-> catalog_query_uuid,
                    query_title |-> query_title,
                    branch |-> Branch(catalog_queries, catalog_query_uuid),
                    result |-> out.result, error |-> out.error,
                    created |-> out.created,
                    \* the call before this one resolved the same filter,
                    \* it too without an identifier, and returned a row
                    repeat |-> /\ catalog_query_uuid = None
                               /\ call.branch = "get_or_create"
                               /\ call.error = "none"
                               /\ call.content_filter = content_filter]
        /\ UNCHANGED <<proc, calls, projection_vars, view_vars, catalog_vars, sync_vars>>

ResolveStep ==
    \E f \in ContentFilters, u \in SendableUuids(catalog_queries), t \in Titles :
        Resolve(f, u, t)

-----------------------------------------------------------------------------
(* SpecRace: two callers; every database statement of a resolve is a step.  *)
(* A caller at "save" has read its row by uuid; at "update_or_create" it     *)
(* found no row with its uuid; at "uoc_create" / "goc_create" it found no    *)
(* row with its hash either and is about to insert.                          *)
(* raced records that a caller stood before its insert while the other      *)
(* caller stood before an insert for the same hash.                         *)

Args(p, content_filter, catalog_query_uuid, query_title) ==
    [proc[p] EXCEPT !.content_filter = content_filter,
                    !.catalog_query_uuid = catalog_query_uuid,
                    !.query_title = query_title]

CreateStates == {"uoc_create", "goc_create"}

\* Caller p has just found no row for its hash (its record becomes next, at a
\* create state): it races every caller that waits to insert the same hash.
PassNotFound(p, next) ==
    LET rivals == {q \in Procs \ {p} :
                     /\ proc[q].pc \in CreateStates
                     /\ get_content_filter_hash(proc[q].content_filter)
                        = get_content_filter_hash(next.content_filter)}
    IN  [q \in Procs |->
            IF q = p THEN [next EXCEPT !.raced = rivals # {}]
            ELSE IF q \in rivals THEN [proc[q] EXCEPT !.raced = TRUE]
            ELSE proc[q]]

Done(p, out) ==
    [proc[p] EXCEPT !.pc = "done", !.result = out.result, !.error = out.error,
                    !.created = out.created]

\* Line 46-48 or 68-70: the call's first read.
Begin(p, content_filter, catalog_query_uuid, query_title) ==
    LET args == Args(p, content_filter, catalog_query_uuid, query_title)
        by_uuid == get_by_uuid(catalog_queries, catalog_query_uuid)
        by_hash == get_by_hash(catalog_queries, get_content_filter_hash(content_filter))
    IN  /\ proc[p].pc = "idle"
        /\ calls < MaxCalls
        /\ calls' = calls + 1
        /\ proc' =
              IF catalog_query_uuid # None
              THEN IF by_uuid # None
                   THEN [proc EXCEPT ![p] = [args EXCEPT !.pc = "save", !.id = by_uuid]]
                   ELSE [proc EXCEPT ![p] = [args EXCEPT !.pc = "update_or_create"]]
              ELSE IF by_hash # None
                   THEN [proc EXCEPT ![p] = [args EXCEPT !.pc = "done", !.result = by_hash]]
                   ELSE PassNotFound(p, [args EXCEPT !.pc = "goc_create"])
        /\ UNCHANGED <<catalog_queries, call, projection_vars, view_vars, catalog_vars, sync_vars>>

\* Lines 49-61: the loaded object is modified in memory and saved.
Save(p) ==
    LET out == overwrite_by_uuid(catalog_queries, proc[p].id, proc[p].catalog_query_uuid,
                                 proc[p].content_filter, proc[p].query_title)
    IN  /\ proc[p].pc = "save"
        /\ catalog_queries' = out.rows
        /\ proc' = [proc EXCEPT ![p] = Done(p, out)]
        /\ UNCHANGED <<call, calls, projection_vars, view_vars, catalog_vars, sync_vars>>

\* Line 63: update_or_create reads by hash under select_for_update; a match is
\* updated and saved while the row lock is held.
UpdateOrCreateGet(p) ==
    LET id == get_by_hash(catalog_queries, get_content_filter_hash(proc[p].content_filter))
        out == update_matched(catalog_queries, id, proc[p].content_filter,
                              proc[p].catalog_query_uuid, proc[p].query_title)
    IN  /\ proc[p].pc = "update_or_create"
        /\ IF id # None
           THEN /\ catalog_queries' = out.rows
                /\ proc' = [proc EXCEPT ![p] = Done(p, out)]
           ELSE /\ catalog_queries' = catalog_queries
                /\ proc' = PassNotFound(p, [proc[p] EXCEPT !.pc = "uoc_create"])
        /\ UNCHANGED <<call, calls, projection_vars, view_vars, catalog_vars, sync_vars>>

\* Lines 63-66: the insert of update_or_create after its read found nothing.
UocCreate(p, sees_row) ==
    LET out == create(catalog_queries,
                      NewRow(proc[p].content_filter, proc[p].catalog_query_uuid,
                             proc[p].query_title),
                      sees_row, TRUE)
    IN  /\ proc[p].pc = "uoc_create"
        /\ Len(out.rows) <= MaxRows
        /\ catalog_queries' = out.rows
        /\ proc' = [proc EXCEPT ![p] = Done(p, out)]
        /\ UNCHANGED <<call, calls, projection_vars, view_vars, catalog_vars, sync_vars>>

\* Lines 69-72: the insert of get_or_create after its read found nothing.
GocCreate(p, sees_row) ==
    LET out == create(catalog_queries,
                      NewRow(proc[p].content_filter, uuid4(Len(catalog_queries) + 1),
                             proc[p].query_title),
                      sees_row, FALSE)
    IN  /\ proc[p].pc = "goc_create"
        /\ Len(out.rows) <= MaxRows
        /\ catalog_queries' = out.rows
        /\ proc' = [proc EXCEPT ![p] = Done(p, out)]
        /\ UNCHANGED <<call, calls, projection_vars, view_vars, catalog_vars, sync_vars>>

\* The call returns (or raises) and the caller is free for its next request.
Return(p) ==
    /\ proc[p].pc = "done"
    /\ proc' = [proc EXCEPT ![p] = IdleProc]
    /\ UNCHANGED <<catalog_queries, call, calls, projection_vars, view_vars, catalog_vars, sync_vars>>

BeginStep ==
    \E p \in Procs, f \in ContentFilters, u \in SendableUuids(catalog_queries),
       t \in Titles : Begin(p, f, u, t)

SaveStep == \E p \in Procs : Save(p)

UpdateOrCreateGetStep == \E p \in Procs : UpdateOrCreateGet(p)

UocCreateStep == \E p \in Procs, sees_row \in BOOLEAN : UocCreate(p, sees_row)

GocCreateStep == \E p \in Procs, sees_row \in BOOLEAN : GocCreate(p, sees_row)

ReturnStep == \E p \in Procs : Return(p)

NextRace ==
    \/ BeginStep
    \/ SaveStep
    \/ UpdateOrCreateGetStep
    \/ UocCreateStep
    \/ GocCreateStep
    \/ ReturnStep

-----------------------------------------------------------------------------
(* serializers.py ContentMetadataSerializer.to_representation *)

\* catalog/constants.py
COURSE == "course"

COURSE_RUN == "courserun"

PROGRAM == "program"

ContentTypes == {COURSE, COURSE_RUN, PROGRAM}

\* A json_metadata course holds at most MaxRuns nested course_runs entries.
MaxRuns == 2

\* Timestamps are 1..MaxTime.
MaxTime == 2

\* dict.get on a missing key.
Missing == "None"

\* A URL is a sequence of parts; NoUrl is a key the dict does not hold (or a
\* None value), BlankUrl the empty URL.
NoUrl == <<>>

BlankUrl == <<"">>

\* The nested course-run dicts a record can hold: key, end of the run
\* relative to now, and the enrollment_url entry (absent in stored metadata).
RunDicts ==
    [key : {"run-1", "run-2"}, end : {"past", "future", Missing},
     enrollment_url : {NoUrl}]

\* json_metadata as stored: 'key' (programs have none), 'aggregation_key' of
\* the parent course (course runs), 'marketing_url', and 'course_runs', a
\* list of references to nested dicts.
JsonMetadata(content_type, key, marketing_url, course_runs) ==
    [key |-> key,
     aggregation_key |-> IF content_type = COURSE_RUN THEN <<"course", "course-1">>
                         ELSE NoUrl,
     marketing_url |-> marketing_url,
     course_runs |-> course_runs]

\* catalog/utils.py get_parent_content_key: the course of a course run.
get_parent_content_key(content_type, json_metadata) ==
    IF content_type = COURSE_RUN /\ json_metadata.aggregation_key # NoUrl
    THEN json_metadata.aggregation_key[2]
    ELSE Missing

Max(a, b) == IF a >= b THEN a ELSE b

\* api/v1/utils.py get_most_recent_modified_time
get_most_recent_modified_time(content_modified, catalog_modified, customer_modified) ==
    Max(content_modified, Max(catalog_modified, customer_modified))

\* api/v1/utils.py get_enterprise_utm_context and update_query_parameters:
\* the utm parameters are added to the URL's query, replacing any utm
\* parameter it held.
update_query_parameters(url, enterprise_name) ==
    SelectSeq(url, LAMBDA part : part # "utm_source=other")
        \o <<"utm_source=" \o enterprise_name>>

\* api/v1/utils.py is_any_course_run_active: some run has not ended.
RECURSIVE is_any_course_run_active(_)
is_any_course_run_active(course_runs) ==
    IF course_runs = <<>>
    THEN FALSE
    ELSE Head(course_runs).end # "past" \/ is_any_course_run_active(Tail(course_runs))

\* EnterpriseCatalog.get_content_enrollment_url: blank without a content key.
get_content_enrollment_url(catalog, content_resource, content_key, parent_content_key) ==
    IF content_key = Missing
    THEN BlankUrl
    ELSE <<"enterprise", catalog.enterprise_uuid, content_resource,
           IF parent_content_key = Missing THEN content_key ELSE parent_content_key,
           "enroll", "catalog=" \o catalog.uuid, "run=" \o content_key>>

\* EnterpriseCatalog.get_xapi_activity_id
get_xapi_activity_id(catalog, content_resource, content_key) ==
    IF content_key = Missing
    THEN BlankUrl
    ELSE <<"xapi", "activities", content_resource, content_key>>

\* The dicts a list of references points at.
Deref(objects, refs) == [i \in DOMAIN refs |-> objects[refs[i]]]

\* The record as its holder sees it: json_metadata with the nested dicts.
StoredMetadata(record, objects) ==
    [record.json_metadata EXCEPT
        !.course_runs = Deref(objects, record.json_metadata.course_runs)]

\* The nested runs are not parented to the course.
SetRunEnrollmentUrls_unparented(objects, refs, catalog, content_key) ==
    [ref \in DOMAIN objects |->
        IF \E i \in DOMAIN refs : refs[i] = ref
        THEN [objects[ref] EXCEPT !.enrollment_url =
                 get_content_enrollment_url(catalog, COURSE, objects[ref].key, Missing)]
        ELSE objects[ref]]

\* Lines 226-231: every nested run dict gets an 'enrollment_url' entry; the
\* dicts are the ones the record's own json_metadata refers to, because
\* dict.copy() (line 190) copies the top level only.
SetRunEnrollmentUrls(objects, refs, catalog, content_key) ==
    [ref \in DOMAIN objects |->
        IF \E i \in DOMAIN refs : refs[i] = ref
        THEN [objects[ref] EXCEPT !.enrollment_url =
                 get_content_enrollment_url(catalog, COURSE, objects[ref].key,
                                            content_key)]
        ELSE objects[ref]]

\* The customer's last_modified_date is left out of the comparison.
content_last_modified_without_customer(record, catalog) ==
    get_most_recent_modified_time(record.modified, catalog.modified, catalog.modified)

\* Lines 198-204: the latest of the record's, the catalog's and the
\* customer's modification times.
content_last_modified(record, catalog) ==
    get_most_recent_modified_time(record.modified, catalog.modified,
                                  catalog.enterprise_customer.last_modified_date)

\* The branch for programs (lines 232-238) is left out.
enrollment_url_without_programs(content_type, catalog, content_key, parent_content_key) ==
    IF content_type \in {COURSE, COURSE_RUN}
    THEN get_content_enrollment_url(catalog, COURSE, content_key, parent_content_key)
    ELSE NoUrl

\* Lines 213-218 and 232-238: json_metadata['enrollment_url']. Courses and
\* course runs are both sent with content_resource=COURSE.
enrollment_url(content_type, catalog, content_key, parent_content_key) ==
    IF content_type \in {COURSE, COURSE_RUN}
    THEN get_content_enrollment_url(catalog, COURSE, content_key, parent_content_key)
    ELSE IF content_type = PROGRAM
    THEN get_content_enrollment_url(catalog, PROGRAM, content_key, parent_content_key)
    ELSE NoUrl

\* Lines 219-222: json_metadata['xapi_activity_id'], for courses and course runs.
xapi_activity_id(content_type, catalog, content_key) ==
    IF content_type \in {COURSE, COURSE_RUN}
    THEN get_xapi_activity_id(catalog, content_type, content_key)
    ELSE NoUrl

\* The flag is computed for course runs as well as for courses.
active_for_course_runs_too(content_type, course_run_dicts) ==
    IF content_type \in {COURSE, COURSE_RUN}
    THEN IF is_any_course_run_active(course_run_dicts) THEN "true" ELSE "false"
    ELSE Missing

\* Lines 223-225: json_metadata['active'], for courses only.
active(content_type, course_run_dicts) ==
    IF content_type = COURSE
    THEN IF is_any_course_run_active(course_run_dicts) THEN "true" ELSE "false"
    ELSE Missing

\* Lines 188-240. The result is the returned dict and the heap afterwards.
to_representation(record, objects, catalog) ==
    LET content_type == record.content_type
        json_metadata == record.json_metadata
        marketing_url == json_metadata.marketing_url
        content_key == json_metadata.key
        parent_content_key == get_parent_content_key(content_type, json_metadata)
        course_runs == json_metadata.course_runs
        objects_after == IF content_type = COURSE
                         THEN SetRunEnrollmentUrls(objects, course_runs, catalog,
                                                   content_key)
                         ELSE objects
    IN  [heap |-> objects_after,
         json_metadata |->
            [key |-> content_key,
             aggregation_key |-> json_metadata.aggregation_key,
             content_last_modified |-> content_last_modified(record, catalog),
             marketing_url |->
                IF marketing_url # NoUrl
                THEN update_query_parameters(marketing_url, catalog.enterprise_name)
                ELSE marketing_url,
             enrollment_url |->
                enrollment_url(content_type, catalog, content_key, parent_content_key),
             xapi_activity_id |-> xapi_activity_id(content_type, catalog, content_key),
             active |-> active(content_type, Deref(objects, course_runs)),
             course_runs |-> Deref(objects_after, course_runs)]]

\* Nothing rendered yet.
NoRepresentation ==
    [key |-> Missing, aggregation_key |-> NoUrl, content_last_modified |-> 0,
     marketing_url |-> NoUrl, enrollment_url |-> NoUrl, xapi_activity_id |-> NoUrl,
     active |-> Missing, course_runs |-> <<>>]

Times == 1..MaxTime

\* The catalogs of the serializer context.
Catalogs ==
    [uuid : {"cat-1"}, enterprise_uuid : {"ent-1"}, enterprise_name : {"Acme"},
     modified : Times, enterprise_customer : [last_modified_date : Times]]

\* The records to render: courses hold 0..MaxRuns nested runs, programs no key.
ContentKey(content_type) ==
    IF content_type = COURSE THEN "course-1"
    ELSE IF content_type = COURSE_RUN THEN "run-1"
    ELSE Missing

Instances ==
    {[content_type |-> content_type, modified |-> modified,
      json_metadata |-> JsonMetadata(content_type, ContentKey(content_type),
                                     marketing_url, [i \in 1..n |-> i])] :
        content_type \in ContentTypes, modified \in Times,
        marketing_url \in {NoUrl, <<"https://example.com/course", "ref=1">>},
        n \in 0..MaxRuns}

ProjectionIdle ==
    /\ instance = [content_type |-> PROGRAM, modified |-> 1,
                   json_metadata |-> JsonMetadata(PROGRAM, Missing, NoUrl, <<>>)]
    /\ heap = <<>>
    /\ enterprise_catalog =
          [uuid |-> "cat-1", enterprise_uuid |-> "ent-1", enterprise_name |-> "Acme",
           modified |-> 1, enterprise_customer |-> [last_modified_date |-> 1]]
    /\ representation = NoRepresentation

ProjectionInit ==
    /\ instance \in Instances
    /\ instance.content_type # COURSE => instance.json_metadata.course_runs = <<>>
    /\ heap \in [DOMAIN instance.json_metadata.course_runs -> RunDicts]
    /\ enterprise_catalog \in Catalogs
    /\ representation = NoRepresentation

\* The serializer renders the record.
ToRepresentation ==
    LET out == to_representation(instance, heap, enterprise_catalog)
    IN  /\ representation' = out.json_metadata
        /\ heap' = out.heap
        /\ UNCHANGED <<instance, enterprise_catalog, resolver_vars, view_vars, catalog_vars, sync_vars>>

ToRepresentationStep == ToRepresentation

-----------------------------------------------------------------------------
(* views/enterprise_catalog_contains_content_items.py *)

\* A request carries at most MaxIds course_run_ids.
MaxIds == 2

\* A key is a sequence of characters. In a query string the '+' of a course
\* run key arrives as a space unless the client escaped it.
TransportCourseRunIds ==
    {<<"c", "r", s, n>> : s \in {"+", " "}, n \in {"1", "2"}}

ProgramUuids == {<<"p", "1">>, <<"p", "2">>}

\* api/v1/utils.py unquote_course_keys: every key gets its '+' back.
unquote_course_keys(course_keys) ==
    [i \in DOMAIN course_keys |->
        [j \in DOMAIN course_keys[i] |->
            IF course_keys[i][j] = " " THEN "+" ELSE course_keys[i][j]]]

\* The content rows a catalog can be associated with.
ContentRows ==
    {[content_key |-> <<"c", "r", "+", "1">>, parent_content_key |-> <<"c", "1">>],
     [content_key |-> <<"c", "r", "+", "2">>, parent_content_key |-> <<"c", "2">>],
     [content_key |-> <<"c", "3">>, parent_content_key |-> <<"p", "1">>],
     [content_key |-> <<"p", "2">>, parent_content_key |-> <<>>]}

\* A key is covered by a row that has it as content key or as parent key.
Covered(rows, content_key) ==
    \E row \in rows :
        row.content_key = content_key \/ row.parent_content_key = content_key

\* EnterpriseCatalog.contains_content_keys: every key is covered.
contains_content_keys(rows, content_keys) ==
    \A i \in DOMAIN content_keys : Covered(rows, content_keys[i])

\* api/v1/decorators.py require_at_least_one_query_parameter: some parameter
\* of the two holds a value.
require_at_least_one_query_parameter(course_run_ids, program_uuids) ==
    course_run_ids # <<>> \/ program_uuids # <<>>

Response(status, checked, contains) ==
    [status |-> status, checked |-> checked, contains_content_items |-> contains]

\* The undecorated view: the existence check runs for every request.
contains_content_items_undecorated(rows, course_run_ids, program_uuids) ==
    Response(200, TRUE,
             contains_content_keys(rows, unquote_course_keys(course_run_ids)
                                         \o program_uuids))

\* The program_uuids are left out of the keys to check.
contains_content_items_without_programs(rows, course_run_ids, program_uuids) ==
    IF ~require_at_least_one_query_parameter(course_run_ids, program_uuids)
    THEN Response(400, FALSE, FALSE)
    ELSE Response(200, TRUE,
                  contains_content_keys(rows, unquote_course_keys(course_run_ids)))

\* Lines 40-53: the decorated view. checked tells whether
\* contains_content_keys was evaluated for the request.
contains_content_items(rows, course_run_ids, program_uuids) ==
    IF ~require_at_least_one_query_parameter(course_run_ids, program_uuids)
    THEN Response(400, FALSE, FALSE)
    ELSE Response(200, TRUE,
                  contains_content_keys(rows, unquote_course_keys(course_run_ids)
                                              \o program_uuids))

SeqsUpTo(S, n) == UNION {[1..k -> S] : k \in 0..n}

NoRequest == [course_run_ids |-> <<>>, program_uuids |-> <<>>]

ViewIdle ==
    /\ content_metadata = {}
    /\ request = NoRequest
    /\ response = Response(0, FALSE, FALSE)

ViewInit ==
    /\ content_metadata \in SUBSET ContentRows
    /\ request = NoRequest
    /\ response = Response(0, FALSE, FALSE)

\* GET .../contains_content_items/?course_run_ids=...&program_uuids=...
ContainsContentItemsRequest(course_run_ids, program_uuids) ==
    /\ request' = [course_run_ids |-> course_run_ids, program_uuids |-> program_uuids]
    /\ response' = contains_content_items(content_metadata, course_run_ids, program_uuids)
    /\ UNCHANGED <<content_metadata, resolver_vars, projection_vars, catalog_vars, sync_vars>>

ContainsContentItemsStep ==
    \E course_run_ids \in SeqsUpTo(TransportCourseRunIds, MaxIds),
       program_uuids \in SeqsUpTo(ProgramUuids, 1) :
        ContainsContentItemsRequest(course_run_ids, program_uuids)

-----------------------------------------------------------------------------
(* serializers.py EnterpriseCatalogSerializer.create and update, over the
   EnterpriseCatalog table. A catalog row keeps the enterprise it belongs to
   and the id of the CatalogQuery row it references; its uuid is not
   editable, so every insert takes a fresh one and the row id stands for it. *)

\* The most catalogs the table holds.
MaxCatalogs == 2

Enterprises == {"e1", "e2"}

\* A table whose unique_together constraint is not enforced.
PairNotUnique_unenforced(catalogs, id, rec) == FALSE

\* Meta.unique_together = (("enterprise_uuid", "catalog_query"),): writing rec
\* as row id (None for an insert) is refused when another row holds the pair.
PairNotUnique(catalogs, id, rec) ==
    \E other \in DOMAIN catalogs :
        /\ other # id
        /\ rec.catalog_query # None
        /\ catalogs[other].enterprise_uuid = rec.enterprise_uuid
        /\ catalogs[other].catalog_query = rec.catalog_query

CatalogOutcome(queries, catalogs, catalog, catalog_query, error) ==
    [queries |-> queries, catalogs |-> catalogs, catalog |-> catalog,
     catalog_query |-> catalog_query, error |-> error]

\* Lines 110-130: the query is resolved, then the catalog is inserted; an
\* IntegrityError of the insert is logged and raised again. What the resolver
\* wrote stays written.
Serializer_create(queries, catalogs, enterprise_uuid, content_filter, uuid, title) ==
    LET out == find_and_modify_catalog_query(queries, content_filter, uuid, title)
        new == [enterprise_uuid |-> enterprise_uuid, catalog_query |-> out.result]
    IN  IF out.error # "none"
        THEN CatalogOutcome(out.rows, catalogs, None, None, out.error)
        ELSE IF PairNotUnique(catalogs, None, new)
        THEN CatalogOutcome(out.rows, catalogs, None, out.result, "IntegrityError")
        ELSE CatalogOutcome(out.rows, Append(catalogs, new), Len(catalogs) + 1,
                            out.result, "none")

\* Lines 137-139: the defaults read from the catalog's current query row.
Defaults(queries, catalog_query) ==
    IF catalog_query # None
    THEN [content_filter |-> queries[catalog_query].content_filter,
          query_title |-> queries[catalog_query].title,
          query_uuid |-> queries[catalog_query].uuid]
    ELSE [content_filter |-> <<>>, query_title |-> NoTitle, query_uuid |-> None]

\* The request data of an update: a field absent from the request is flagged
\* (its value is then not read), a catalog_query_uuid sent as null is present
\* with the value None. A query title is passed through to the resolver and
\* plays no part in which row a catalog comes to reference: the requests of
\* SpecCatalog leave query_title out.
UpdateData(queries) ==
    { [has_content_filter |-> cf # <<>>, content_filter |-> cf,
       has_catalog_query_uuid |-> u[1], catalog_query_uuid |-> u[2],
       has_query_title |-> t[1], query_title |-> t[2],
       enterprise_uuid |-> e] :
        cf \in {<<>>} \cup ContentFilters,
        u \in {<<FALSE, None>>} \cup ({TRUE} \X SendableUuids(queries)),
        t \in {<<FALSE, NoTitle>>},
        e \in Enterprises }

\* The identifier of the current query row is not taken as the default.
ResolverArgs_without_default_uuid(defaults, data) ==
    [content_filter |-> IF data.has_content_filter
                        THEN data.content_filter ELSE defaults.content_filter,
     query_title |-> IF data.has_query_title
                     THEN data.query_title ELSE defaults.query_title,
     catalog_query_uuid |-> IF data.has_catalog_query_uuid
                            THEN data.catalog_query_uuid ELSE None]

\* The arguments update passes to the resolver, lines 140-142.
ResolverArgs(defaults, data) ==
    [content_filter |-> IF data.has_content_filter
                        THEN data.content_filter ELSE defaults.content_filter,
     query_title |-> IF data.has_query_title
                     THEN data.query_title ELSE defaults.query_title,
     catalog_query_uuid |-> IF data.has_catalog_query_uuid
                            THEN data.catalog_query_uuid ELSE defaults.query_uuid]

\* Lines 132-145: the query is resolved from the request data and the
\* defaults, assigned to the instance, and the instance is saved with the
\* remaining validated data by ModelSerializer.update.
Serializer_update(queries, catalogs, instance_id, data) ==
    LET args == ResolverArgs(Defaults(queries, catalogs[instance_id].catalog_query), data)
        out == find_and_modify_catalog_query(queries, args.content_filter,
                                             args.catalog_query_uuid, args.query_title)
        rec == [enterprise_uuid |-> data.enterprise_uuid, catalog_query |-> out.result]
    IN  IF out.error # "none"
        THEN CatalogOutcome(out.rows, catalogs, instance_id, None, out.error)
        ELSE IF PairNotUnique(catalogs, instance_id, rec)
        THEN CatalogOutcome(out.rows, catalogs, instance_id, out.result, "IntegrityError")
        ELSE CatalogOutcome(out.rows, [catalogs EXCEPT ![instance_id] = rec],
                            instance_id, out.result, "none")

-----------------------------------------------------------------------------
(* SpecCatalog: catalogs created and updated one request after another *)

NoOp ==
    [kind |-> "none", catalog |-> None, enterprise_uuid |-> "none",
     content_filter |-> <<>>, default_content_filter |-> <<>>,
     has_content_filter |-> FALSE, has_catalog_query_uuid |-> FALSE,
     catalog_query |-> None, error |-> "none"]

CatalogInit ==
    /\ enterprise_catalogs = <<>>
    /\ op = NoOp

\* A request handled by create; op keeps its arguments and its outcome.
CreateCatalog(enterprise_uuid, content_filter, catalog_query_uuid, query_title) ==
    LET out == Serializer_create(catalog_queries, enterprise_catalogs, enterprise_uuid,
                                 content_filter, catalog_query_uuid, query_title)
    IN  /\ Len(out.queries) <= MaxRows
        /\ Len(out.catalogs) <= MaxCatalogs
        /\ catalog_queries' = out.queries
        /\ enterprise_catalogs' = out.catalogs
        /\ op' = [kind |-> "create", catalog |-> out.catalog,
                  enterprise_uuid |-> enterprise_uuid,
                  content_filter |-> content_filter,
                  default_content_filter |-> <<>>,
                  has_content_filter |-> TRUE,
                  has_catalog_query_uuid |-> catalog_query_uuid # None,
                  catalog_query |-> out.catalog_query, error |-> out.error]
        /\ UNCHANGED <<call, proc, calls, projection_vars, view_vars, sync_vars>>

\* A request handled by update for the catalog instance_id.
UpdateCatalog(instance_id, data) ==
    LET defaults == Defaults(catalog_queries, enterprise_catalogs[instance_id].catalog_query)
        out == Serializer_update(catalog_queries, enterprise_catalogs, instance_id, data)
    IN  /\ Len(out.queries) <= MaxRows
        /\ catalog_queries' = out.queries
        /\ enterprise_catalogs' = out.catalogs
        /\ op' = [kind |-> "update", catalog |-> instance_id,
                  enterprise_uuid |-> data.enterprise_uuid,
                  content_filter |-> ResolverArgs(defaults, data).content_filter,
                  default_content_filter |-> defaults.content_filter,
                  has_content_filter |-> data.has_content_filter,
                  has_catalog_query_uuid |-> data.has_catalog_query_uuid,
                  catalog_query |-> out.catalog_query, error |-> out.error]
        /\ UNCHANGED <<call, proc, calls, projection_vars, view_vars, sync_vars>>

CreateCatalogStep ==
    \E enterprise_uuid \in Enterprises, content_filter \in ContentFilters,
       catalog_query_uuid \in SendableUuids(catalog_queries) :
        CreateCatalog(enterprise_uuid, content_filter, catalog_query_uuid, NoTitle)

UpdateCatalogStep ==
    \E instance_id \in DOMAIN enterprise_catalogs, data \in UpdateData(catalog_queries) :
        UpdateCatalog(instance_id, data)

NextCatalog == CreateCatalogStep \/ UpdateCatalogStep

-----------------------------------------------------------------------------
(* models.py update_contentmetadata_from_discovery, over the ContentMetadata
   table. A row keeps its content_key and its json_metadata; an entry of the
   remote results is a payload with its 'key' and the rest of its fields. *)

\* The most entries one answer of the discovery service holds.
MaxResults == 2

\* The most syncs begun in SpecSyncRace.
MaxSyncs == 3

ContentKeys == {"k1", "k2"}

\* What the other fields of a payload hold.
Bodies == {"b1", "b2"}

Entries == [key : ContentKeys, body : Bodies]

\* The rows the lookup json_metadata=entry finds.
Matches(rows, entry) ==
    {id \in DOMAIN rows : rows[id].json_metadata = entry}

\* A table whose content_key lost its unique constraint.
ContentKeyNotUnique_unenforced(rows, id, rec) == FALSE

\* content_key = CharField(unique=True): writing rec as row id (None for an
\* insert) is refused when another row holds the same content_key.
ContentKeyNotUnique(rows, id, rec) ==
    \E other \in DOMAIN rows :
        other # id /\ rows[other].content_key = rec.content_key

MetadataOutcome(rows, error, created) ==
    [rows |-> rows, error |-> error, created |-> created]

\* The match of update_or_create: the defaults are set on the row and it is
\* saved.
metadata_update(rows, id, defaults) ==
    LET rec == [rows[id] EXCEPT !.content_key = defaults.content_key]
    IN  IF ContentKeyNotUnique(rows, id, rec)
        THEN MetadataOutcome(rows, "IntegrityError", FALSE)
        ELSE MetadataOutcome([rows EXCEPT ![id] = rec], "none", FALSE)

\* get(**kwargs) of the lookup, then the update of a single match.
metadata_get_and_update(rows, entry, defaults) ==
    LET found == Matches(rows, entry)
    IN  IF Cardinality(found) > 1
        THEN MetadataOutcome(rows, "MultipleObjectsReturned", FALSE)
        ELSE metadata_update(rows, CHOOSE id \in found : TRUE, defaults)

\* The insert of update_or_create after its lookup found nothing. A refused
\* insert is caught and the lookup is made again: when it sees a row
\* (sees_row) that row takes the defaults, else the IntegrityError is raised.
metadata_create(rows, entry, defaults, sees_row) ==
    LET new == [content_key |-> defaults.content_key, json_metadata |-> entry]
    IN  IF ~ContentKeyNotUnique(rows, None, new)
        THEN MetadataOutcome(Append(rows, new), "none", TRUE)
        ELSE IF Matches(rows, entry) # {} /\ sees_row
        THEN metadata_get_and_update(rows, entry, defaults)
        ELSE MetadataOutcome(rows, "IntegrityError", FALSE)

\* objects.create in the place of update_or_create: always an insert.
metadata_create_only(rows, entry) ==
    LET new == [content_key |-> entry.key, json_metadata |-> entry]
    IN  IF ContentKeyNotUnique(rows, None, new)
        THEN MetadataOutcome(rows, "IntegrityError", FALSE)
        ELSE MetadataOutcome(Append(rows, new), "none", TRUE)

\* Lines 197-200: ContentMetadata.objects.update_or_create(json_metadata=entry,
\* defaults={'content_key': entry['key']}), run without interference.
metadata_update_or_create(rows, entry) ==
    LET defaults == [content_key |-> entry.key]
    IN  IF Matches(rows, entry) # {}
        THEN metadata_get_and_update(rows, entry, defaults)
        ELSE metadata_create(rows, entry, defaults, TRUE)

\* Lines 196-200: the loop over the results from entry i on; an exception
\* ends it, and processed counts the entries done before.
RECURSIVE sync_entries(_, _, _)
sync_entries(rows, results, i) ==
    IF i > Len(results)
    THEN [rows |-> rows, error |-> "none", processed |-> Len(results)]
    ELSE LET out == metadata_update_or_create(rows, results[i])
         IN  IF out.error # "none"
             THEN [rows |-> out.rows, error |-> out.error, processed |-> i - 1]
             ELSE sync_entries(out.rows, results, i + 1)

\* Lines 183-200, given what get_metadata_by_query answered.
update_contentmetadata_from_discovery(rows, results) ==
    sync_entries(rows, results, 1)

\* The answers of the discovery service: any entries, in any order.
Results == SeqsUpTo(Entries, MaxResults)

-----------------------------------------------------------------------------
(* SpecSync: syncs run one after another *)

NoRun ==
    [catalog |-> None, results |-> <<>>, error |-> "none", processed |-> 0,
     repeat |-> FALSE]

IdleSync ==
    [pc |-> "idle", catalog |-> None, todo |-> <<>>, error |-> "none",
     raced |-> FALSE]

SyncIdle ==
    /\ metadata_rows = <<>>
    /\ run = NoRun
    /\ syncs = [p \in Procs |-> IdleSync]
    /\ sync_calls = 0

\* Two catalogs of two enterprises that share one CatalogQuery row.
SharedQuery ==
    /\ catalog_queries = <<NewRow(<<1>>, uuid4(1), NoTitle)>>
    /\ enterprise_catalogs = <<[enterprise_uuid |-> "e1", catalog_query |-> 1],
                               [enterprise_uuid |-> "e2", catalog_query |-> 1]>>
    /\ call = NoCall
    /\ proc = [p \in Procs |-> IdleProc]
    /\ calls = 0
    /\ op = NoOp

\* One whole run for the catalog catalog_uuid, the service answering results.
\* repeat records that the run before was for the same catalog and got the
\* same answer.
Sync(catalog_uuid, results) ==
    LET out == update_contentmetadata_from_discovery(metadata_rows, results)
    IN  /\ enterprise_catalogs[catalog_uuid].catalog_query # None
        /\ metadata_rows' = out.rows
        /\ run' = [catalog |-> catalog_uuid, results |-> results,
                   error |-> out.error, processed |-> out.processed,
                   repeat |-> (run.catalog = catalog_uuid /\ run.results = results)]
        /\ UNCHANGED <<syncs, sync_calls, resolver_vars, projection_vars, view_vars,
                       catalog_vars>>

SyncStep ==
    \E catalog_uuid \in DOMAIN enterprise_catalogs, results \in Results :
        Sync(catalog_uuid, results)

NextSync == SyncStep

-----------------------------------------------------------------------------
(* SpecSyncRace: two syncs whose per-entry steps interleave. The lookup of  *)
(* update_or_create and, after a miss, its insert are separate steps; a     *)
(* match is updated and saved under the row lock of the lookup. raced       *)
(* records that a sync stood before its insert while the other stood before *)
(* an insert of the same content_key. todo holds the entries the loop has   *)
(* not finished: its head is the entry at hand.                             *)

\* Sync p has just found no row for its entry (its record becomes next, at
\* the insert): it races every sync that waits to insert the same key.
SyncPassNotFound(p, next) ==
    LET rivals == {q \in Procs \ {p} :
                     /\ syncs[q].pc = "create"
                     /\ Head(syncs[q].todo).key = Head(next.todo).key}
    IN  [q \in Procs |->
            IF q = p THEN [next EXCEPT !.raced = rivals # {}]
            ELSE IF q \in rivals THEN [syncs[q] EXCEPT !.raced = TRUE]
            ELSE syncs[q]]

\* Where sync p stands after the step on its entry ended with out.
AfterEntry(p, out) ==
    IF out.error # "none"
    THEN [syncs[p] EXCEPT !.pc = "done", !.error = out.error]
    ELSE IF Len(syncs[p].todo) = 1
    THEN [syncs[p] EXCEPT !.pc = "done", !.todo = <<>>]
    ELSE [syncs[p] EXCEPT !.pc = "find", !.todo = Tail(@)]

\* Lines 191-194: the catalog is read and the service answers.
SyncBegin(p, catalog_uuid, results) ==
    /\ syncs[p].pc = "idle"
    /\ enterprise_catalogs[catalog_uuid].catalog_query # None
    /\ sync_calls < MaxSyncs
    /\ sync_calls' = sync_calls + 1
    /\ syncs' = [syncs EXCEPT ![p] =
                    [IdleSync EXCEPT !.pc = IF results = <<>> THEN "done" ELSE "find",
                                     !.catalog = catalog_uuid,
                                     !.todo = results]]
    /\ UNCHANGED <<metadata_rows, run, resolver_vars, projection_vars, view_vars,
                   catalog_vars>>

\* Line 198: the lookup of update_or_create for the entry at hand.
SyncFind(p) ==
    LET entry == Head(syncs[p].todo)
        out == metadata_get_and_update(metadata_rows, entry, [content_key |-> entry.key])
    IN  /\ syncs[p].pc = "find"
        /\ IF Matches(metadata_rows, entry) # {}
           THEN /\ metadata_rows' = out.rows
                /\ syncs' = [syncs EXCEPT ![p] = AfterEntry(p, out)]
           ELSE /\ metadata_rows' = metadata_rows
                /\ syncs' = SyncPassNotFound(p, [syncs[p] EXCEPT !.pc = "create"])
        /\ UNCHANGED <<run, sync_calls, resolver_vars, projection_vars, view_vars,
                       catalog_vars>>

\* Line 198: the insert of update_or_create after its lookup found nothing.
SyncCreate(p, sees_row) ==
    LET entry == Head(syncs[p].todo)
        out == metadata_create(metadata_rows, entry, [content_key |-> entry.key], sees_row)
    IN  /\ syncs[p].pc = "create"
        /\ metadata_rows' = out.rows
        /\ syncs' = [syncs EXCEPT ![p] = AfterEntry(p, out)]
        /\ UNCHANGED <<run, sync_calls, resolver_vars, projection_vars, view_vars,
                       catalog_vars>>

\* The sync returns (or raises) and the worker is free for its next run.
SyncReturn(p) ==
    /\ syncs[p].pc = "done"
    /\ syncs' = [syncs EXCEPT ![p] = IdleSync]
    /\ UNCHANGED <<metadata_rows, run, sync_calls, resolver_vars, projection_vars,
                   view_vars, catalog_vars>>

SyncBeginStep ==
    \E p \in Procs, catalog_uuid \in DOMAIN enterprise_catalogs, results \in Results :
        SyncBegin(p, catalog_uuid, results)

SyncFindStep == \E p \in Procs : SyncFind(p)

SyncCreateStep == \E p \in Procs, sees_row \in BOOLEAN : SyncCreate(p, sees_row)

SyncReturnStep == \E p \in Procs : SyncReturn(p)

NextSyncRace ==
    \/ SyncBeginStep
    \/ SyncFindStep
    \/ SyncCreateStep
    \/ SyncReturnStep

-----------------------------------------------------------------------------
(* The specifications *)

Init == ResolverInit /\ ProjectionIdle /\ ViewIdle /\ CatalogInit /\ SyncIdle

Next == ResolveStep

Spec == Init /\ [][Next]_vars

SpecRace == Init /\ [][NextRace]_vars

InitProject == ResolverInit /\ ProjectionInit /\ ViewIdle /\ CatalogInit /\ SyncIdle

NextProject == ToRepresentationStep

SpecProject == InitProject /\ [][NextProject]_vars

InitContains == ResolverInit /\ ProjectionIdle /\ ViewInit /\ CatalogInit /\ SyncIdle

NextContains == ContainsContentItemsStep

SpecContains == InitContains /\ [][NextContains]_vars

SpecCatalog == Init /\ [][NextCatalog]_vars

InitSync == SharedQuery /\ ProjectionIdle /\ ViewIdle /\ SyncIdle

SpecSync == InitSync /\ [][NextSync]_vars

SpecSyncRace == InitSync /\ [][NextSyncRace]_vars

-----------------------------------------------------------------------------
(* Properties of the resolver *)

HashOf(content_filter) == get_content_filter_hash(content_filter)

RowsWithHash(rows, hash) == {id \in RowIds(rows) : rows[id].content_filter_hash = hash}

\* C1: in every state reached by interleaved resolves, no two CatalogQuery
\* rows hold the same content_filter_hash.
C1_UniqueContentFilterHash ==
    \A a, b \in RowIds(catalog_queries) :
        a # b => catalog_queries[a].content_filter_hash
                 # catalog_queries[b].content_filter_hash

\* Two rows exist, one caller was refused and another returned a row.
C1_Witness ==
    /\ Len(catalog_queries) = 2
    /\ \E p, q \in Procs :
          /\ proc[p].pc = "done" /\ proc[p].error # "none"
          /\ proc[q].pc = "done" /\ proc[q].error = "none"

\* C2: a resolve without identifier that repeats the filter of the resolve
\* before it (also without identifier) returns the same row and adds no row.
C2_SameRowTwice ==
    [][(/\ call.branch = "get_or_create"
        /\ call.error = "none"
        /\ call'.catalog_query_uuid = None
        /\ call'.content_filter = call.content_filter)
       => (/\ call'.error = "none"
           /\ call'.result = call.result
           /\ Len(catalog_queries') = Len(catalog_queries))]_vars

\* The second of two such resolves has returned the row of the first.
C2_Witness ==
    /\ call.repeat
    /\ call.result # None
    /\ catalog_queries[call.result].content_filter = call.content_filter

\* C3: with rows A and B, a resolve with A's identifier and a filter whose
\* hash B owns fails with an error on the field 'catalog_query' and leaves
\* the table (A and B included) as it was.
C3_ConflictLeavesRows ==
    [][(\E A, B \in RowIds(catalog_queries) :
          /\ A # B
          /\ call'.catalog_query_uuid # None
          /\ catalog_queries[A].uuid = call'.catalog_query_uuid
          /\ catalog_queries[B].content_filter_hash = HashOf(call'.content_filter))
       => (/\ call'.error = "catalog_query"
           /\ call'.result = None
           /\ catalog_queries' = catalog_queries)]_vars

\* A resolve by identifier was refused for a hash that another row owns.
C3_Witness ==
    /\ call.error = "catalog_query"
    /\ \E A, B \in RowIds(catalog_queries) :
          /\ A # B
          /\ catalog_queries[A].uuid = call.catalog_query_uuid
          /\ catalog_queries[A].content_filter # call.content_filter
          /\ catalog_queries[B].content_filter_hash = HashOf(call.content_filter)

\* C4: when row A has the given identifier and no other row owns the hash
\* of the new filter, the resolve returns A with the given filter, the given
\* title (null included) and the filter's hash; no row is created and no
\* other row changes.
C4_OverwriteByIdentifier ==
    [][\A A \in RowIds(catalog_queries) :
          (/\ call'.catalog_query_uuid # None
           /\ catalog_queries[A].uuid = call'.catalog_query_uuid
           /\ RowsWithHash(catalog_queries, HashOf(call'.content_filter)) \subseteq {A})
          => (/\ call'.error = "none"
              /\ call'.result = A
              /\ Len(catalog_queries') = Len(catalog_queries)
              /\ catalog_queries'[A] =
                     [uuid |-> catalog_queries[A].uuid,
                      title |-> call'.query_title,
                      content_filter |-> call'.content_filter,
                      content_filter_hash |-> HashOf(call'.content_filter)]
              /\ \A B \in RowIds(catalog_queries) \ {A} :
                     catalog_queries'[B] = catalog_queries[B])]_vars

\* A row was overwritten through its identifier with a null title.
C4_Witness ==
    /\ call.branch = "overwrite"
    /\ call.error = "none"
    /\ call.query_title = NoTitle
    /\ Len(catalog_queries) = 2
    /\ catalog_queries[call.result].content_filter = call.content_filter
    /\ catalog_queries[call.result].title = NoTitle

\* The case of C5: the identifier is given, no row has it, row R owns the hash.
C5_Case(R) ==
    /\ call'.catalog_query_uuid # None
    /\ get_by_uuid(catalog_queries, call'.catalog_query_uuid) = None
    /\ R \in RowsWithHash(catalog_queries, HashOf(call'.content_filter))

\* C5 as stated: the matched row R is returned with its identifier, title and
\* filter exactly as they were.
C5_MatchedRowUntouched ==
    [][\A R \in RowIds(catalog_queries) :
          C5_Case(R) => (/\ call'.result = R
                         /\ catalog_queries'[R] = catalog_queries[R])]_vars

\* C5 as amended: the matched row R is returned and no row is inserted, but
\* update_or_create writes the supplied identifier, title and filter onto R;
\* R keeps its hash and every other row is unchanged.
C5_MatchedRowTakesDefaults ==
    [][\A R \in RowIds(catalog_queries) :
          C5_Case(R) => (/\ call'.error = "none"
                         /\ call'.result = R
                         /\ Len(catalog_queries') = Len(catalog_queries)
                         /\ catalog_queries'[R] =
                                [uuid |-> call'.catalog_query_uuid,
                                 title |-> call'.query_title,
                                 content_filter |-> call'.content_filter,
                                 content_filter_hash |->
                                     catalog_queries[R].content_filter_hash]
                         /\ \A B \in RowIds(catalog_queries) \ {R} :
                                catalog_queries'[B] = catalog_queries[B])]_vars

\* A row created without identifier was matched by hash under a new identifier.
C5_Witness ==
    /\ call.branch = "update_or_create"
    /\ ~call.created
    /\ call.error = "none"
    /\ call.result # None
    /\ catalog_queries[call.result].uuid = call.catalog_query_uuid
    /\ catalog_queries[call.result].title = "A"

\* C6: without identifier, a row R that owns the filter's hash is returned
\* and the table is unchanged, also when the supplied title is not R's.
C6_MatchWithoutIdentifier ==
    [][\A R \in RowIds(catalog_queries) :
          (/\ call'.catalog_query_uuid = None
           /\ R \in RowsWithHash(catalog_queries, HashOf(call'.content_filter)))
          => (/\ call'.error = "none"
              /\ call'.result = R
              /\ catalog_queries' = catalog_queries)]_vars

\* A resolve without identifier matched a row whose title is not the supplied one.
C6_Witness ==
    /\ call.branch = "get_or_create"
    /\ ~call.created
    /\ call.result # None
    /\ catalog_queries[call.result].content_filter_hash = HashOf(call.content_filter)
    /\ catalog_queries[call.result].title # call.query_title

\* Callers p and q both found no row for the same hash before either
\* inserted; both calls have ended.
Raced(p, q) ==
    /\ p # q
    /\ proc[p].pc = "done" /\ proc[p].raced
    /\ proc[q].pc = "done" /\ proc[q].raced
    /\ HashOf(proc[p].content_filter) = HashOf(proc[q].content_filter)

OneWinnerOneRow(p, q) ==
    /\ proc[p].created # proc[q].created
    /\ Cardinality(RowsWithHash(catalog_queries, HashOf(proc[p].content_filter))) = 1

\* C7 as stated: of two racing resolves one creates the row, the other is
\* given a uniqueness violation, and one row with the hash exists.
C7_LoserGetsViolation ==
    \A p, q \in Procs :
        Raced(p, q) =>
            /\ OneWinnerOneRow(p, q)
            /\ ~proc[p].created => proc[p].error = "IntegrityError"

\* C7 as amended: one creates the row and one row with the hash exists; the
\* other is either given the uniqueness violation or, when the read that
\* follows the refused insert sees the winner's row, is returned that row.
C7_LoserGetsViolationOrRow ==
    \A p, q \in Procs :
        Raced(p, q) =>
            /\ OneWinnerOneRow(p, q)
            /\ ~proc[p].created =>
                  \/ proc[p].error = "IntegrityError"
                  \/ /\ proc[p].error = "none"
                     /\ proc[p].result \in
                            RowsWithHash(catalog_queries, HashOf(proc[p].content_filter))

\* Both raced for the same hash; one created the row, the other got it back.
C7_Witness ==
    \E p, q \in Procs :
        /\ Raced(p, q)
        /\ proc[p].created
        /\ ~proc[q].created
        /\ proc[q].error = "none"
        /\ proc[q].result = proc[p].result

\* C18: every CatalogQuery row holds the hash of its own filter, whichever
\* branch of the resolver wrote it.
C18_HashOfOwnFilter ==
    \A id \in RowIds(catalog_queries) :
        catalog_queries[id].content_filter_hash
            = get_content_filter_hash(catalog_queries[id].content_filter)

\* One row was overwritten through its identifier and another was inserted.
C18_Witness ==
    /\ Len(catalog_queries) = 2
    /\ \E p, q \in Procs :
          /\ proc[p].pc = "done" /\ proc[p].id # None /\ proc[p].error = "none"
          /\ catalog_queries[proc[p].id].content_filter = proc[p].content_filter
          /\ Len(proc[p].content_filter) = 2
          /\ proc[q].pc = "done" /\ proc[q].created

-----------------------------------------------------------------------------
(* Properties of the catalogs *)

\* No two EnterpriseCatalog rows hold the same (enterprise_uuid, catalog_query).
PairsUnique ==
    \A c, d \in DOMAIN enterprise_catalogs :
        (/\ enterprise_catalogs[c].enterprise_uuid = enterprise_catalogs[d].enterprise_uuid
         /\ enterprise_catalogs[c].catalog_query = enterprise_catalogs[d].catalog_query)
            => c = d

\* The create of this step resolved to a query row that a catalog of the same
\* enterprise referenced already.
SecondForSamePair ==
    /\ op'.kind = "create"
    /\ op'.catalog_query # None
    /\ \E c \in DOMAIN enterprise_catalogs :
          /\ enterprise_catalogs[c].enterprise_uuid = op'.enterprise_uuid
          /\ enterprise_catalogs[c].catalog_query = op'.catalog_query

\* C11: the pairs (enterprise_uuid, catalog_query) stay unique over every
\* sequence of creates and updates, and a create for a pair that exists ends
\* in the IntegrityError of the insert and adds no catalog.
C11_PairUniqueAndSecondRefused ==
    /\ []PairsUnique
    /\ [][SecondForSamePair =>
            /\ op'.error = "IntegrityError"
            /\ enterprise_catalogs' = enterprise_catalogs]_vars

\* A create was refused for a pair that a catalog holds.
C11_Witness ==
    /\ op.kind = "create"
    /\ op.error = "IntegrityError"
    /\ \E c \in DOMAIN enterprise_catalogs :
          /\ enterprise_catalogs[c].enterprise_uuid = op.enterprise_uuid
          /\ enterprise_catalogs[c].catalog_query = op.catalog_query

\* The update of this step carries a content filter and no catalog_query_uuid,
\* for a catalog that references the row Q, and no other row owns the hash.
UpdateByFilterOnly(Q) ==
    /\ op'.kind = "update"
    /\ op'.has_content_filter
    /\ ~op'.has_catalog_query_uuid
    /\ enterprise_catalogs[op'.catalog].catalog_query = Q
    /\ \A other \in RowIds(catalog_queries) :
          other # Q => catalog_queries[other].content_filter_hash
                            # get_content_filter_hash(op'.content_filter)

\* C19: such an update overwrites Q in place: the catalog and every other
\* catalog that referenced Q still reference it, Q holds the new filter and its
\* hash, and no CatalogQuery row is created.
C19_OverwritesOwnQuery ==
    [][\A Q \in RowIds(catalog_queries) :
         UpdateByFilterOnly(Q) =>
            /\ Len(catalog_queries') = Len(catalog_queries)
            /\ catalog_queries'[Q].content_filter = op'.content_filter
            /\ catalog_queries'[Q].content_filter_hash
                  = get_content_filter_hash(op'.content_filter)
            /\ catalog_queries'[Q].uuid = catalog_queries[Q].uuid
            /\ \A c \in DOMAIN enterprise_catalogs :
                  enterprise_catalogs[c].catalog_query = Q
                     => enterprise_catalogs'[c].catalog_query = Q]_vars

\* An update by filter alone changed the filter of a row two catalogs share.
C19_Witness ==
    /\ op.kind = "update"
    /\ op.has_content_filter
    /\ ~op.has_catalog_query_uuid
    /\ op.error = "none"
    /\ op.default_content_filter # op.content_filter
    /\ Len(enterprise_catalogs) = 2
    /\ \A c \in DOMAIN enterprise_catalogs :
          /\ enterprise_catalogs[c].catalog_query = op.catalog_query
          /\ catalog_queries[op.catalog_query].content_filter = op.content_filter

-----------------------------------------------------------------------------
(* Properties of the sync *)

\* The entry of the run of this step has the content_key of the row r and
\* another payload.
ChangedPayload(entry, r) ==
    /\ metadata_rows[r].content_key = entry.key
    /\ metadata_rows[r].json_metadata # entry

\* C12: for an entry that has the content_key of an existing row and another
\* payload, the run adds a row holding the entry and leaves the existing row
\* as it was.
C12_NewRowForChangedPayload ==
    [][\A i \in DOMAIN run'.results, r \in DOMAIN metadata_rows :
         ChangedPayload(run'.results[i], r) =>
            /\ \E n \in DOMAIN metadata_rows' :
                  /\ n \notin DOMAIN metadata_rows
                  /\ metadata_rows'[n].json_metadata = run'.results[i]
            /\ metadata_rows'[r] = metadata_rows[r]]_vars

C17_UniqueContentKey ==
    \A r, n \in DOMAIN metadata_rows :
        metadata_rows[r].content_key = metadata_rows[n].content_key => r = n

\* Two syncs for the two catalogs of the shared query stood before the insert
\* of the same key at once; one has inserted it and the other was refused.
C17_Witness ==
    /\ syncs["p1"].raced /\ syncs["p2"].raced
    /\ syncs["p1"].catalog # syncs["p2"].catalog
    /\ syncs["p1"].pc = "done" /\ syncs["p2"].pc = "done"
    /\ syncs["p2"].error = "IntegrityError"
    /\ \E r \in DOMAIN metadata_rows :
          metadata_rows[r].content_key = Head(syncs["p2"].todo).key

-----------------------------------------------------------------------------
(* Properties of the projection *)

\* C8: to_representation never changes the record: its json_metadata, the
\* nested course-run dicts included, is the same before and after.
C8_RecordUnchanged ==
    [][StoredMetadata(instance', heap') = StoredMetadata(instance, heap)]_vars

\* to_representation has returned.
Rendered == representation # NoRepresentation

\* The nested course-run dicts of the rendered record.
InstanceRuns == Deref(heap, instance.json_metadata.course_runs)

\* C13: a course is rendered with active true iff one of its nested runs has
\* not ended (no runs, or only ended runs: false; a run without end date:
\* true); records of the other content types get no 'active' entry.
C13_ActiveIffSomeRunOpen ==
    Rendered =>
        IF instance.content_type = COURSE
        THEN /\ representation.active \in {"true", "false"}
             /\ (representation.active = "true")
                   = (\E i \in DOMAIN InstanceRuns : InstanceRuns[i].end # "past")
             /\ (\E i \in DOMAIN InstanceRuns : InstanceRuns[i].end = Missing)
                   => representation.active = "true"
             /\ InstanceRuns = <<>> => representation.active = "false"
        ELSE representation.active = Missing

\* A course with an ended run and a run without end date was rendered active.
C13_Witness ==
    /\ Rendered
    /\ instance.content_type = COURSE
    /\ Len(InstanceRuns) = 2
    /\ InstanceRuns[1].end = "past"
    /\ InstanceRuns[2].end = Missing
    /\ representation.active = "true"

\* The enrollment URL of catalog cat for resource, the key in its path and
\* the key it names as run.
EnrollmentUrl(cat, resource, path_key, run_key) ==
    <<"enterprise", cat.enterprise_uuid, resource, path_key, "enroll",
      "catalog=" \o cat.uuid, "run=" \o run_key>>

\* C14 as stated: the enrollment URL of a course or course run names the
\* content's own resource type.
C14_OwnResourceType ==
    (Rendered /\ instance.content_type \in {COURSE, COURSE_RUN}) =>
        representation.enrollment_url[3] = instance.content_type

\* C14 as amended: the enrollment URL of a course and of a course run is
\* built with the resource type course, the catalog's identifier, the content
\* key and, for a course run, its parent course key; every nested run of a
\* course gets its own such URL with the course's key as parent.
C14_CourseResourceType ==
    (Rendered /\ instance.content_type \in {COURSE, COURSE_RUN}) =>
        /\ representation.enrollment_url =
              EnrollmentUrl(enterprise_catalog, COURSE,
                            IF instance.content_type = COURSE_RUN
                            THEN instance.json_metadata.aggregation_key[2]
                            ELSE instance.json_metadata.key,
                            instance.json_metadata.key)
        /\ instance.content_type = COURSE =>
              /\ Len(representation.course_runs) = Len(InstanceRuns)
              /\ \A i \in DOMAIN representation.course_runs :
                    representation.course_runs[i].enrollment_url =
                        EnrollmentUrl(enterprise_catalog, COURSE,
                                      instance.json_metadata.key,
                                      representation.course_runs[i].key)

\* A course run was rendered: its URL is that of its parent course.
C14_Witness ==
    /\ Rendered
    /\ instance.content_type = COURSE_RUN
    /\ representation.enrollment_url[3] = COURSE
    /\ representation.enrollment_url[4] = "course-1"

\* C15: content_last_modified is the latest of the record's, the catalog's
\* and the enterprise customer's modification times.
C15_LatestOfThree ==
    Rendered =>
        LET times == {instance.modified, enterprise_catalog.modified,
                      enterprise_catalog.enterprise_customer.last_modified_date}
        IN  /\ representation.content_last_modified \in times
            /\ \A t \in times : representation.content_last_modified >= t

\* The customer alone was modified last, and its time was rendered.
C15_Witness ==
    /\ Rendered
    /\ enterprise_catalog.enterprise_customer.last_modified_date > instance.modified
    /\ enterprise_catalog.enterprise_customer.last_modified_date
          > enterprise_catalog.modified
    /\ representation.content_last_modified
          = enterprise_catalog.enterprise_customer.last_modified_date

\* C16: a program is rendered with an enrollment_url entry that is blank,
\* and with neither an xapi_activity_id nor an 'active' entry.
C16_ProgramUrlBlank ==
    (Rendered /\ instance.content_type = PROGRAM) =>
        /\ representation.enrollment_url = BlankUrl
        /\ representation.xapi_activity_id = NoUrl
        /\ representation.active = Missing

\* A program was rendered for a catalog and customer modified after it.
C16_Witness ==
    /\ Rendered
    /\ instance.content_type = PROGRAM
    /\ enterprise_catalog.modified > instance.modified
    /\ representation.enrollment_url = BlankUrl

-----------------------------------------------------------------------------
(* Properties of the coverage view *)

\* The keys a request asks for: its course run ids, decoded, and its program ids.
RequestedKeys ==
    {unquote_course_keys(request.course_run_ids)[i] : i \in DOMAIN request.course_run_ids}
        \cup {request.program_uuids[i] : i \in DOMAIN request.program_uuids}

OnlyRun1 ==
    {[content_key |-> <<"c", "r", "+", "1">>, parent_content_key |-> <<"c", "1">>]}

\* C9: an accepted request is answered true iff every requested key, course
\* run ids decoded and program ids alike, is covered by the catalog's content;
\* a catalog holding only run 1 answers false for runs {1, 2}, true for {1}.
C9_TrueIffAllCovered ==
    response.status = 200 =>
        /\ response.contains_content_items
              = (\A key \in RequestedKeys : Covered(content_metadata, key))
        /\ (content_metadata = OnlyRun1 /\ request.program_uuids = <<>>) =>
              /\ request.course_run_ids = <<<<"c", "r", " ", "1">>, <<"c", "r", " ", "2">>>>
                    => ~response.contains_content_items
              /\ request.course_run_ids = <<<<"c", "r", " ", "1">>>>
                    => response.contains_content_items

\* A catalog holding only run 1 was asked for runs 1 and 2 and answered false.
C9_Witness ==
    /\ content_metadata = OnlyRun1
    /\ request = [course_run_ids |-> <<<<"c", "r", " ", "1">>, <<"c", "r", "+", "2">>>>,
                  program_uuids |-> <<>>]
    /\ response.status = 200
    /\ ~response.contains_content_items

\* C10: a request with neither course_run_ids nor program_uuids is answered
\* with a client error and contains_content_keys is not evaluated for it; a
\* request with at least one of the two reaches the existence check.
C10_RejectedBeforeCheck ==
    response.status # 0 =>
        IF request.course_run_ids = <<>> /\ request.program_uuids = <<>>
        THEN response.status = 400 /\ ~response.checked
        ELSE response.status = 200 /\ response.checked

\* A request without either parameter was rejected.
C10_Witness ==
    /\ request.course_run_ids = <<>>
    /\ request.program_uuids = <<>>
    /\ response.status = 400
    /\ ~response.checked

====
